---- MODULE Spec2Model ----
(***************************************************************************)
(* DevFriendlySplitChunksPlugin::optimize_chunks                           *)
(* (crates/rspack_plugin_dev_friendly_split_chunks/src/plugin.rs).         *)
(*                                                                         *)
(* The pass moves every module that belongs to more than one chunk into    *)
(* freshly created chunks.  The model follows the code statement by        *)
(* statement: the parallel scan, sort_unstable_by, par_chunks, the         *)
(* weighted size test and the greedy raw-size loop, the synthesis of one   *)
(* chunk per batch through the DashMap, and the three sequential loops     *)
(* (split, add, disconnect).                                               *)
(*                                                                         *)
(* f64 quantities (chunk_size, remain_chunk_size, new_chunk_size) are      *)
(* represented exactly as integers counting halves, because the only       *)
(* non-integral factor in the code is the coefficient 1.5.                 *)
(***************************************************************************)
EXTENDS Integers, Sequences, FiniteSets, TLC

(***************************************************************************)
(* Bounds of the model.                                                    *)
(***************************************************************************)
\* Module identities are 1..NumModules; Identifier order is integer order.
NumModules == 3
\* Chunks present before the pass have the keys 1..NumOldChunks.
NumOldChunks == 3
\* module.size(JavaScript) ranges over 0..MaxModuleSize.
MaxModuleSize == 4
\* plugin.rs:67 sets 500; the model runs the same code with a small cap.
MAX_MODULES_PER_CHUNK == 2
\* plugin.rs:69 sets 5000000.0; the model runs the same code with a small cap.
MAX_SIZE_PER_CHUNK == 3

Modules == 1..NumModules
OldChunks == 1..NumOldChunks
ModuleTypes == {"Js", "Jsx", "JsxDynamic", "JsxEsm", "Tsx"}
ModuleSizes == 0..MaxModuleSize

VARIABLES
  module_graph,     \* identifier -> [size, module_type]
  resolvable,       \* identifiers for which module_by_identifier is Some
  cgm_chunks,       \* chunk_graph_module_by_module_identifier[m].chunks
  cgc_modules,      \* chunk graph: registered chunk key -> its module set
  chunk_by_ukey,    \* chunk registry: key -> Chunk
  split_children,   \* chunk-group bookkeeping: old chunk -> chunks split off it
  next_ukey,        \* the key the next Chunk::new receives
  pc,               \* position in optimize_chunks
  shared_modules,   \* Vec<SharedModule>
  split_modules,    \* per window: its batches, once the worker has grouped it
  synth,            \* per window and batch: the synthesized triple
  chunk_and_cgc,    \* Vec<(ChunkInfo, Chunk, ChunkGraphChunk)>
  cur,              \* loop position of the running for_each nest
  split_log,        \* split invocations of this run: <<module, old, new>>
  split_count,      \* number of split invocations of this run
  input,            \* the graph this run started from
  run,              \* 1 for the first run, 2 for the second
  mode,             \* "first", "rerun" (on the output) or "replay" (same input)
  first_result,     \* batches and reasons of the first run
  out_snapshot,     \* the graph the first run produced
  loop              \* the locals of one call of the flat_map closure

vars == << module_graph, resolvable, cgm_chunks, cgc_modules, chunk_by_ukey,
           split_children, next_ukey, pc, shared_modules, split_modules, synth,
           chunk_and_cgc, cur, split_log, split_count, input, run, mode,
           first_result, out_snapshot, loop >>

(***************************************************************************)
(* Sequences.                                                              *)
(***************************************************************************)
Range(s) == {s[i] : i \in 1..Len(s)}

Perms(S) ==
  {s \in [1..Cardinality(S) -> S] : \A x \in S : \E i \in 1..Cardinality(S) : s[i] = x}

Min(a, b) == IF a < b THEN a ELSE b

RECURSIVE Flatten(_)
Flatten(ss) == IF ss = <<>> THEN <<>> ELSE Head(ss) \o Flatten(Tail(ss))

\* An f64 holding the integer n, counted in halves.
F64(n) == 2 * n

\* The locals of the flat_map closure while no closure call is followed.
NoLoop ==
  [pc |-> "idle", modules |-> << >>, chunk_size |-> 0, remain_chunk_size |-> 0,
   last_end_idx |-> 0, new_chunk_size |-> 0, start_idx |-> 0, chunks |-> << >>,
   branch |-> "none", consumed |-> << >>]

\* A window not yet grouped, a batch not yet synthesized.
NotGrouped == [done |-> FALSE, batches |-> << >>]

NotSynthesized == [done |-> FALSE]

(***************************************************************************)
(* 4.1 Shared module detector (plugin.rs:39-53).                           *)
(***************************************************************************)
SharedModule(module) == [module |-> module, ref_chunks |-> cgm_chunks[module]]

IsShared_AtLeastOne(m) == Cardinality(m.ref_chunks) >= 1

IsShared(m) == Cardinality(m.ref_chunks) > 1

DetectedSharedModules == {sm \in {SharedModule(module) : module \in Modules} : IsShared(sm)}

(***************************************************************************)
(* 4.2 Priority sorter (plugin.rs:55-64).                                  *)
(***************************************************************************)
Cmp(x, y) == IF x < y THEN "Less" ELSE IF x > y THEN "Greater" ELSE "Equal"

Compare_NoTieBreak(a, b) == Cmp(Cardinality(b.ref_chunks), Cardinality(a.ref_chunks))

Compare_AscendingCount(a, b) ==
  LET ret == Cmp(Cardinality(a.ref_chunks), Cardinality(b.ref_chunks)) IN
  IF ret # "Equal" THEN ret ELSE Cmp(a.module, b.module)

Compare(a, b) ==
  LET ret == Cmp(Cardinality(b.ref_chunks), Cardinality(a.ref_chunks)) IN
  IF ret # "Equal" THEN ret ELSE Cmp(a.module, b.module)

\* sort_unstable_by: some permutation that is ordered by the comparator;
\* elements that compare Equal may end in any order.
SortUnstableBy(v) ==
  {p \in Perms(Range(v)) :
     \A i, j \in 1..Len(p) : i < j => Compare(p[i], p[j]) # "Greater"}

(***************************************************************************)
(* 4.3 Size-aware grouper (plugin.rs:73-125).                              *)
(***************************************************************************)
\* slice.par_chunks(size): consecutive windows as <<first, last>> index
\* pairs (1-based, inclusive) of a slice of length len.
ParChunks_OneMore(len, size) ==
  [w \in 1..((len + size) \div (size + 1)) |->
     << (w - 1) * (size + 1) + 1, Min(w * (size + 1), len) >>]

ParChunks(len, size) ==
  [w \in 1..((len + size - 1) \div size) |->
     << (w - 1) * size + 1, Min(w * size, len) >>]

Windows == ParChunks(Len(shared_modules), MAX_MODULES_PER_CHUNK)

Window(w) == SubSeq(shared_modules, Windows[w][1], Windows[w][2])

\* Twice the coefficient of plugin.rs:85-92.
Coefficient2_NoJsxEsm(module_type) ==
  IF module_type \in {"Jsx", "JsxDynamic", "Tsx"} THEN 10 ELSE 3

Coefficient2_Half(module_type) ==
  IF module_type \in {"Jsx", "JsxDynamic", "JsxEsm", "Tsx"} THEN 10 ELSE 1

Coefficient2(module_type) ==
  IF module_type \in {"Jsx", "JsxDynamic", "JsxEsm", "Tsx"} THEN 10 ELSE 3

\* module.size(&SourceType::JavaScript), raw.
ModuleSize(module) == module_graph[module].size

\* plugin.rs:76-96: the weighted estimate of a window, in halves.
RECURSIVE ChunkSize(_)
ChunkSize(modules) ==
  IF modules = <<>> THEN 0
  ELSE ModuleSize(Head(modules).module) * Coefficient2(module_graph[Head(modules).module].module_type)
       + ChunkSize(Tail(modules))

\* plugin.rs:105-114: the inner while loop.
RECURSIVE InnerLoop(_, _)
InnerLoop(modules, st) ==
  IF st.new_chunk_size < F64(MAX_SIZE_PER_CHUNK) /\ st.last_end_idx < Len(modules)
  THEN LET module_size == F64(ModuleSize(modules[st.last_end_idx + 1].module)) IN
       InnerLoop(modules, [st EXCEPT !.new_chunk_size = @ + module_size,
                                     !.remain_chunk_size = @ - module_size,
                                     !.last_end_idx = @ + 1])
  ELSE st

\* plugin.rs:102-116: the outer while loop.
RECURSIVE OuterLoop(_, _)
OuterLoop(modules, st) ==
  IF st.remain_chunk_size > F64(MAX_SIZE_PER_CHUNK) /\ st.last_end_idx < Len(modules)
  THEN LET st0 == [st EXCEPT !.new_chunk_size = 0, !.start_idx = st.last_end_idx]
           st1 == InnerLoop(modules, st0)
       IN  OuterLoop(modules,
             [st1 EXCEPT !.chunks =
                Append(@, SubSeq(modules, st1.start_idx + 1, st1.last_end_idx))])
  ELSE st

\* plugin.rs:98: the decision to re-split.
NeedsResplit(modules) == ChunkSize(modules) > F64(MAX_SIZE_PER_CHUNK)

\* plugin.rs:98-124: the batches of one window.
SizeSplit_OverlappingRemainder(modules) ==
  IF NeedsResplit(modules)
  THEN LET st == OuterLoop(modules,
                   [remain_chunk_size |-> ChunkSize(modules), last_end_idx |-> 0,
                    new_chunk_size |-> 0, start_idx |-> 0, chunks |-> <<>>])
       IN  IF st.last_end_idx < Len(modules)
           THEN Append(st.chunks, SubSeq(modules, st.last_end_idx, Len(modules)))
           ELSE st.chunks
  ELSE << modules >>

SizeSplit_NoRemainder(modules) ==
  IF NeedsResplit(modules)
  THEN OuterLoop(modules,
         [remain_chunk_size |-> ChunkSize(modules), last_end_idx |-> 0,
          new_chunk_size |-> 0, start_idx |-> 0, chunks |-> <<>>]).chunks
  ELSE << modules >>

SizeSplit(modules) ==
  IF NeedsResplit(modules)
  THEN LET st == OuterLoop(modules,
                   [remain_chunk_size |-> ChunkSize(modules), last_end_idx |-> 0,
                    new_chunk_size |-> 0, start_idx |-> 0, chunks |-> <<>>])
       IN  IF st.last_end_idx < Len(modules)
           THEN Append(st.chunks, SubSeq(modules, st.last_end_idx + 1, Len(modules)))
           ELSE st.chunks
  ELSE << modules >>

(***************************************************************************)
(* 4.4 Chunk synthesizer (plugin.rs:135-157).                              *)
(***************************************************************************)
\* Chunk::new(None, None, ChunkKind::Normal) followed by the push of the
\* reason string (plugin.rs:137-140).
NewChunk_SameKey(ukey) ==
  [ukey |-> NumOldChunks + 1, name |-> "None", kind |-> "Normal",
   chunk_reasons |-> << "Split with ref count> 1" >>]

NewChunk(ukey) ==
  [ukey |-> ukey, name |-> "None", kind |-> "Normal",
   chunk_reasons |-> << "Split with ref count> 1" >>]

\* plugin.rs:141-144: the chunk-graph record of a batch.
NewChunkGraphChunk_DropFirst(modules) == {modules[k].module : k \in 2..Len(modules)}

NewChunkGraphChunk(modules) == {modules[k].module : k \in 1..Len(modules)}

\* plugin.rs:146-151: the chunk-sets after the batch's modules got the key.
InsertChunkKey_Skipped(chunks, modules, ukey) == chunks

InsertChunkKey(chunks, modules, ukey) ==
  [m \in DOMAIN chunks |->
     IF \E k \in 1..Len(modules) : modules[k].module = m
     THEN chunks[m] \cup {ukey} ELSE chunks[m]]

(***************************************************************************)
(* 4.5 Graph rewriter (plugin.rs:161-187).                                 *)
(***************************************************************************)
\* The order of the three for_each nests in the source text.
PhaseOrder_DisconnectFirst == << "disconnect", "split", "add" >>

PhaseOrder == << "split", "add", "disconnect" >>

FirstPhase == PhaseOrder[1]

NextPhase(p) ==
  LET k == CHOOSE i \in 1..Len(PhaseOrder) : PhaseOrder[i] = p IN
  IF k < Len(PhaseOrder) THEN PhaseOrder[k + 1] ELSE "return"

\* plugin.rs:162-164: the (batch, module) pairs the split nest visits.
SplitWork_FirstModuleOnly ==
  [i \in 1..Len(chunk_and_cgc) |->
     [module |-> chunk_and_cgc[i].info[1].module,
      ref_chunks |-> chunk_and_cgc[i].info[1].ref_chunks,
      new |-> i]]

SplitWork ==
  Flatten([i \in 1..Len(chunk_and_cgc) |->
            [j \in 1..Len(chunk_and_cgc[i].info) |->
               [module |-> chunk_and_cgc[i].info[j].module,
                ref_chunks |-> chunk_and_cgc[i].info[j].ref_chunks,
                new |-> i]]])

\* plugin.rs:181-182: the modules the disconnect nest visits.
DisconnectWork_SkipFirst == SubSeq(shared_modules, 2, Len(shared_modules))

DisconnectWork == shared_modules

WorkOf(p) ==
  IF p = "split" THEN SplitWork
  ELSE IF p = "disconnect" THEN DisconnectWork
  ELSE chunk_and_cgc

\* The first entry at or after k whose inner iteration is not empty.
RECURSIVE SkipEmpty(_, _)
SkipEmpty(work, k) ==
  IF k > Len(work) THEN k
  ELSE IF work[k].ref_chunks # {} THEN k
  ELSE SkipEmpty(work, k + 1)

CursorAt(p, k) ==
  IF p \in {"split", "disconnect"}
  THEN LET k0 == SkipEmpty(WorkOf(p), k) IN
       [k |-> k0, pending |-> IF k0 <= Len(WorkOf(p)) THEN WorkOf(p)[k0].ref_chunks ELSE {}]
  ELSE [k |-> k, pending |-> {}]

NoCursor == [k |-> 0, pending |-> {}]

\* The cursor after old_chunk of the current entry has been visited.
Visited(p, old_chunk) ==
  IF cur.pending \ {old_chunk} # {}
  THEN [cur EXCEPT !.pending = @ \ {old_chunk}]
  ELSE CursorAt(p, cur.k + 1)

\* Chunk::split (rspack_core): the new chunk is recorded with the old one.
Split(children, old_chunk, new_ukey) ==
  [children EXCEPT ![old_chunk] = @ \cup {new_ukey}]

\* ChunkGraph::add_chunk_wit_chunk_graph_chunk (rspack_core).
AddChunkWithChunkGraphChunk(cgc, ukey, modules) == (ukey :> modules) @@ cgc

\* ChunkByUkey::add (rspack_core).
AddChunk(registry, chunk) == (chunk.ukey :> chunk) @@ registry

\* ChunkGraph::disconnect_chunk_and_module (rspack_core), module side.
DisconnectModuleSide(chunks, old_chunk, module) ==
  [chunks EXCEPT ![module] = @ \ {old_chunk}]

\* ChunkGraph::disconnect_chunk_and_module (rspack_core), chunk side.
DisconnectChunkSide(cgc, old_chunk, module) ==
  [cgc EXCEPT ![old_chunk] = @ \ {module}]

(***************************************************************************)
(* The graph a run starts from.                                            *)
(***************************************************************************)
Graph == [cgm |-> cgm_chunks, cgc |-> cgc_modules, registry |-> chunk_by_ukey,
          children |-> split_children]

OldChunk(c) == [ukey |-> c, name |-> "None", kind |-> "Normal", chunk_reasons |-> << >>]

NoResult == [batches |-> << >>, reasons |-> << >>, valid |-> FALSE]

NoSnapshot == [valid |-> FALSE]

\* The modules of the model's pass runs are small or larger than the cap.
PassModuleKinds ==
  {[size |-> 1, module_type |-> "Js"], [size |-> MaxModuleSize, module_type |-> "Tsx"]}

InitGraph ==
  /\ cgm_chunks \in [Modules -> SUBSET OldChunks]
  /\ cgc_modules = [c \in OldChunks |-> {m \in Modules : c \in cgm_chunks[m]}]
  /\ chunk_by_ukey = [c \in OldChunks |-> OldChunk(c)]
  /\ split_children = [c \in OldChunks |-> {}]
  /\ next_ukey = NumOldChunks + 1

InitRun ==
  /\ shared_modules = << >>
  /\ split_modules = << >>
  /\ synth = << >>
  /\ chunk_and_cgc = << >>
  /\ cur = NoCursor
  /\ split_log = {}
  /\ split_count = 0
  /\ run = 1
  /\ mode = "first"
  /\ first_result = NoResult
  /\ out_snapshot = NoSnapshot
  /\ loop = NoLoop

\* The size, the type and the lookup of a module are read only if the module
\* is shared, so the unshared modules all get one kind and are all found.
Init ==
  /\ InitGraph
  /\ module_graph \in
       {g \in [Modules -> PassModuleKinds] :
          \A m \in Modules : ~IsShared(SharedModule(m)) => g[m] = [size |-> 1, module_type |-> "Js"]}
  /\ resolvable \in
       {Modules} \cup {Modules \ {m} : m \in {x \in Modules : IsShared(SharedModule(x))}}
  /\ InitRun
  /\ input = Graph
  /\ pc = "start"

(***************************************************************************)
(* The steps of optimize_chunks.                                           *)
(***************************************************************************)
graph_vars == << cgm_chunks, cgc_modules, chunk_by_ukey, split_children >>
ghost_vars == << input, run, mode, first_result, out_snapshot >>
env_vars == << module_graph, resolvable, loop >>

\* plugin.rs:39-53: par_bridge hands the modules to the workers in no fixed
\* order, so collect() may produce any order.
Scan ==
  /\ pc = "start"
  /\ shared_modules' \in Perms(DetectedSharedModules)
  /\ pc' = "collected"
  /\ UNCHANGED << graph_vars, ghost_vars, env_vars, next_ukey, split_modules, synth,
                  chunk_and_cgc, cur, split_log, split_count >>

\* plugin.rs:55-64, and the windows of plugin.rs:73-74.
Sort ==
  /\ pc = "collected"
  /\ shared_modules' \in SortUnstableBy(shared_modules)
  /\ split_modules' = [w \in DOMAIN ParChunks(Len(shared_modules), MAX_MODULES_PER_CHUNK) |-> NotGrouped]
  /\ synth' = [w \in DOMAIN ParChunks(Len(shared_modules), MAX_MODULES_PER_CHUNK) |-> << >>]
  /\ pc' = "synth"
  /\ UNCHANGED << graph_vars, ghost_vars, env_vars, next_ukey, chunk_and_cgc, cur,
                  split_log, split_count >>

\* Every module of the window is found by module_by_identifier.
WindowResolves(w) == \A k \in 1..Len(Window(w)) : Window(w)[k].module \in resolvable

\* plugin.rs:75-125: a worker groups one window; the pipeline is lazy, so
\* this happens while other windows may already have been synthesized.
GroupWindow(w) ==
  /\ pc = "synth"
  /\ ~split_modules[w].done
  /\ WindowResolves(w)
  /\ split_modules' = [split_modules EXCEPT ![w] = [done |-> TRUE, batches |-> SizeSplit(Window(w))]]
  /\ synth' = [synth EXCEPT ![w] = [b \in 1..Len(SizeSplit(Window(w))) |-> NotSynthesized]]
  /\ UNCHANGED << graph_vars, ghost_vars, env_vars, next_ukey, pc, shared_modules,
                  chunk_and_cgc, cur, split_log, split_count >>

\* plugin.rs:79-82: expect("Should have a module here") panics.
GroupWindowAbort(w) ==
  /\ pc = "synth"
  /\ ~split_modules[w].done
  /\ ~WindowResolves(w)
  /\ pc' = "aborted"
  /\ UNCHANGED << graph_vars, ghost_vars, env_vars, next_ukey, shared_modules,
                  split_modules, synth, chunk_and_cgc, cur, split_log, split_count >>

\* plugin.rs:136-156: a worker synthesizes the chunk of one batch.
SynthBatch(w, b) ==
  /\ pc = "synth"
  /\ split_modules[w].done
  /\ ~synth[w][b].done
  /\ LET modules == split_modules[w].batches[b]
         chunk == NewChunk(next_ukey)
     IN  /\ cgm_chunks' = InsertChunkKey(cgm_chunks, modules, chunk.ukey)
         /\ synth' = [synth EXCEPT ![w][b] =
                        [done |-> TRUE, info |-> modules, chunk |-> chunk,
                         cgc |-> NewChunkGraphChunk(modules)]]
  /\ next_ukey' = next_ukey + 1
  /\ UNCHANGED << cgc_modules, chunk_by_ukey, split_children, ghost_vars, env_vars, pc,
                  shared_modules, split_modules, chunk_and_cgc, cur, split_log,
                  split_count >>

AllSynthesized ==
  \A w \in DOMAIN split_modules :
    /\ split_modules[w].done
    /\ \A b \in DOMAIN synth[w] : synth[w][b].done

\* plugin.rs:157-159: collect() keeps the order of the batches.
Collect ==
  /\ pc = "synth"
  /\ AllSynthesized
  /\ chunk_and_cgc' = Flatten(synth)
  /\ pc' = FirstPhase
  /\ UNCHANGED << graph_vars, ghost_vars, env_vars, next_ukey, shared_modules,
                  split_modules, synth, split_log, split_count >>
  /\ cur' = CursorAt(FirstPhase, 1)'

\* plugin.rs:165-167: one invocation of split.
SplitOldChunk ==
  /\ pc = "split"
  /\ cur.k <= Len(SplitWork)
  /\ \E old_chunk \in cur.pending :
       LET new == chunk_and_cgc[SplitWork[cur.k].new].chunk IN
       /\ split_children' = Split(split_children, old_chunk, new.ukey)
       /\ split_log' = split_log \cup {<< SplitWork[cur.k].module, old_chunk, new.ukey >>}
       /\ cur' = Visited("split", old_chunk)
  /\ split_count' = split_count + 1
  /\ UNCHANGED << cgm_chunks, cgc_modules, chunk_by_ukey, ghost_vars, env_vars, next_ukey,
                  pc, shared_modules, split_modules, synth, chunk_and_cgc >>

\* plugin.rs:174-177: one new chunk enters the chunk graph and the registry.
AddNewChunk ==
  /\ pc = "add"
  /\ cur.k <= Len(chunk_and_cgc)
  /\ LET t == chunk_and_cgc[cur.k] IN
       /\ cgc_modules' = AddChunkWithChunkGraphChunk(cgc_modules, t.chunk.ukey, t.cgc)
       /\ chunk_by_ukey' = AddChunk(chunk_by_ukey, t.chunk)
  /\ cur' = [cur EXCEPT !.k = @ + 1]
  /\ UNCHANGED << cgm_chunks, split_children, ghost_vars, env_vars, next_ukey, pc,
                  shared_modules, split_modules, synth, chunk_and_cgc, split_log,
                  split_count >>

\* plugin.rs:183-185: one module leaves one of its old chunks.
DisconnectChunkAndModule ==
  /\ pc = "disconnect"
  /\ cur.k <= Len(DisconnectWork)
  /\ \E old_chunk \in cur.pending :
       LET module == DisconnectWork[cur.k].module IN
       /\ cgm_chunks' = DisconnectModuleSide(cgm_chunks, old_chunk, module)
       /\ cgc_modules' = DisconnectChunkSide(cgc_modules, old_chunk, module)
       /\ cur' = Visited("disconnect", old_chunk)
  /\ UNCHANGED << chunk_by_ukey, split_children, ghost_vars, env_vars, next_ukey, pc,
                  shared_modules, split_modules, synth, chunk_and_cgc, split_log,
                  split_count >>

\* plugin.rs:170, 178, 187: a for_each nest is exhausted, the next one starts.
EndPhase ==
  /\ pc \in Range(PhaseOrder)
  /\ cur.k > Len(WorkOf(pc))
  /\ pc' = NextPhase(pc)
  /\ cur' = IF NextPhase(pc) = "return" THEN NoCursor ELSE CursorAt(NextPhase(pc), 1)
  /\ UNCHANGED << graph_vars, ghost_vars, env_vars, next_ukey, shared_modules,
                  split_modules, synth, chunk_and_cgc, split_log, split_count >>

BatchIds(triples) ==
  [i \in 1..Len(triples) |->
     [j \in 1..Len(triples[i].info) |-> triples[i].info[j].module]]

Reasons(triples) == [i \in 1..Len(triples) |-> triples[i].chunk.chunk_reasons]

\* plugin.rs:189: Ok(()).
Return ==
  /\ pc = "return"
  /\ pc' = "done"
  /\ first_result' =
       IF run = 1
       THEN [batches |-> BatchIds(chunk_and_cgc), reasons |-> Reasons(chunk_and_cgc),
             valid |-> TRUE]
       ELSE first_result
  /\ UNCHANGED << graph_vars, input, run, mode, out_snapshot, env_vars, next_ukey,
                  shared_modules, split_modules, synth, chunk_and_cgc, cur, split_log,
                  split_count >>

ResetRun ==
  /\ shared_modules' = << >>
  /\ split_modules' = << >>
  /\ synth' = << >>
  /\ chunk_and_cgc' = << >>
  /\ cur' = NoCursor
  /\ split_log' = {}
  /\ split_count' = 0
  /\ pc' = "start"
  /\ run' = 2

\* The pass is called again on the graph it has just produced.
Rerun ==
  /\ pc = "done"
  /\ run = 1
  /\ mode' = "rerun"
  /\ out_snapshot' = [valid |-> TRUE, graph |-> Graph, next_ukey |-> next_ukey]
  /\ input' = Graph
  /\ ResetRun
  /\ UNCHANGED << graph_vars, env_vars, next_ukey, first_result >>

\* The pass is called a second time on the graph the first run started from.
Replay ==
  /\ pc = "done"
  /\ run = 1
  /\ mode' = "replay"
  /\ cgm_chunks' = input.cgm
  /\ cgc_modules' = input.cgc
  /\ chunk_by_ukey' = input.registry
  /\ split_children' = input.children
  /\ ResetRun
  /\ UNCHANGED << env_vars, next_ukey, first_result, input, out_snapshot >>

Next ==
  \/ Scan
  \/ Sort
  \/ \E w \in DOMAIN split_modules : GroupWindow(w)
  \/ \E w \in DOMAIN split_modules : GroupWindowAbort(w)
  \/ \E w \in DOMAIN split_modules : \E b \in DOMAIN synth[w] : SynthBatch(w, b)
  \/ Collect
  \/ SplitOldChunk
  \/ AddNewChunk
  \/ DisconnectChunkAndModule
  \/ EndPhase
  \/ Return
  \/ Rerun
  \/ Replay

Spec == Init /\ [][Next]_vars

(***************************************************************************)
(* The grouper on its own: the pass right after the sort, for every        *)
(* assignment of sizes and types to the shared modules.                    *)
(***************************************************************************)
\* Modules 1..k are shared by the chunks 1 and 2, the others live in chunk 1.
\* The type of a module matters through its coefficient only: the first
\* module takes every type, the others one type of each coefficient.
GrouperChunks(k) == [m \in Modules |-> IF m <= k THEN {1, 2} ELSE {1}]

GrouperGraph ==
  /\ \E k \in 0..NumModules :
       /\ cgm_chunks = GrouperChunks(k)
       /\ module_graph \in
            {g \in [Modules -> [size : ModuleSizes, module_type : ModuleTypes]] :
               \A m \in Modules :
                 /\ m > k => g[m] = [size |-> 0, module_type |-> "Js"]
                 /\ m > 1 => g[m].module_type \in {"Js", "Tsx"}}
       /\ shared_modules = [m \in 1..k |-> [module |-> m, ref_chunks |-> {1, 2}]]
       /\ split_modules = [w \in DOMAIN ParChunks(k, MAX_MODULES_PER_CHUNK) |-> NotGrouped]
       /\ synth = [w \in DOMAIN ParChunks(k, MAX_MODULES_PER_CHUNK) |-> << >>]
  /\ resolvable = Modules
  /\ cgc_modules = [c \in OldChunks |-> {m \in Modules : c \in cgm_chunks[m]}]
  /\ chunk_by_ukey = [c \in OldChunks |-> OldChunk(c)]
  /\ split_children = [c \in OldChunks |-> {}]
  /\ next_ukey = NumOldChunks + 1
  /\ chunk_and_cgc = << >>
  /\ cur = NoCursor
  /\ split_log = {}
  /\ split_count = 0
  /\ run = 1
  /\ mode = "first"
  /\ first_result = NoResult
  /\ out_snapshot = NoSnapshot
  /\ input = Graph
  /\ pc = "synth"

GrouperInit == GrouperGraph /\ loop = NoLoop

GrouperNext == \E w \in DOMAIN split_modules : GroupWindow(w)

SpecGrouper == GrouperInit /\ [][GrouperNext]_vars

(***************************************************************************)
(* The synthesis map (plugin.rs:134-157) with the workers interleaved at   *)
(* every write to the DashMap.                                             *)
(***************************************************************************)
\* A worker has taken the batch and has not returned its triple.
InProgress(w, b) == "pos" \in DOMAIN synth[w][b]

\* plugin.rs:136-144: Chunk::new, the reason, the chunk-graph record.
BeginSynth(w, b) ==
  /\ pc = "synth"
  /\ split_modules[w].done
  /\ synth[w][b] = NotSynthesized
  /\ synth' = [synth EXCEPT ![w][b] =
                 [done |-> FALSE, info |-> split_modules[w].batches[b],
                  chunk |-> NewChunk(next_ukey),
                  cgc |-> NewChunkGraphChunk(split_modules[w].batches[b]),
                  pos |-> 0]]
  /\ next_ukey' = next_ukey + 1
  /\ UNCHANGED << graph_vars, ghost_vars, env_vars, pc, shared_modules, split_modules,
                  chunk_and_cgc, cur, split_log, split_count >>

\* plugin.rs:146-151: one get_mut and insert on the DashMap.
InsertKey(w, b) ==
  /\ pc = "synth"
  /\ InProgress(w, b)
  /\ synth[w][b].pos < Len(synth[w][b].info)
  /\ LET t == synth[w][b] IN
     /\ cgm_chunks' = InsertChunkKey(cgm_chunks, SubSeq(t.info, t.pos + 1, t.pos + 1),
                                     t.chunk.ukey)
     /\ synth' = [synth EXCEPT ![w][b].pos = @ + 1]
  /\ UNCHANGED << cgc_modules, chunk_by_ukey, split_children, ghost_vars, env_vars,
                  next_ukey, pc, shared_modules, split_modules, chunk_and_cgc, cur,
                  split_log, split_count >>

\* plugin.rs:153-155: the worker returns (chunk_info, chunk, chunk_graph_chunk).
EndSynth(w, b) ==
  /\ pc = "synth"
  /\ InProgress(w, b)
  /\ synth[w][b].pos = Len(synth[w][b].info)
  /\ LET t == synth[w][b] IN
     synth' = [synth EXCEPT ![w][b] =
                 [done |-> TRUE, info |-> t.info, chunk |-> t.chunk, cgc |-> t.cgc]]
  /\ UNCHANGED << graph_vars, ghost_vars, env_vars, next_ukey, pc, shared_modules,
                  split_modules, chunk_and_cgc, cur, split_log, split_count >>

\* The batches depend on the sizes through the cuts only: the modules are
\* plain JavaScript, empty, small or over the cap.
SynthInit ==
  /\ GrouperInit
  /\ \A m \in Modules :
       /\ module_graph[m].module_type = "Js"
       /\ module_graph[m].size \in {0, 1, MaxModuleSize}

SynthNext ==
  \/ \E w \in DOMAIN split_modules : GroupWindow(w)
  \/ \E w \in DOMAIN split_modules : \E b \in DOMAIN synth[w] : BeginSynth(w, b)
  \/ \E w \in DOMAIN split_modules : \E b \in DOMAIN synth[w] : InsertKey(w, b)
  \/ \E w \in DOMAIN split_modules : \E b \in DOMAIN synth[w] : EndSynth(w, b)

SpecSynth == SynthInit /\ [][SynthNext]_vars

(***************************************************************************)
(* The flat_map closure (plugin.rs:75-125) step by step, applied to a      *)
(* slice of up to NumModules modules of every size and type assignment.    *)
(***************************************************************************)
\* plugin.rs:76-96: the closure has summed the weighted estimate.
LoopEntry(modules) ==
  [NoLoop EXCEPT !.pc = "test", !.modules = modules, !.chunk_size = ChunkSize(modules)]

\* plugin.rs:102: the condition of the outer while.
OuterCond_NoIndexGuard(st) == st.remain_chunk_size > F64(MAX_SIZE_PER_CHUNK)

OuterCond(st) ==
  st.remain_chunk_size > F64(MAX_SIZE_PER_CHUNK) /\ st.last_end_idx < Len(st.modules)

\* plugin.rs:105: the condition of the inner while.
InnerCond_LessEq(st) ==
  st.new_chunk_size <= F64(MAX_SIZE_PER_CHUNK) /\ st.last_end_idx < Len(st.modules)

InnerCond(st) ==
  st.new_chunk_size < F64(MAX_SIZE_PER_CHUNK) /\ st.last_end_idx < Len(st.modules)

loop_frame == << module_graph, resolvable, cgm_chunks, cgc_modules, chunk_by_ukey,
                 split_children, next_ukey, pc, shared_modules, split_modules, synth,
                 chunk_and_cgc, cur, split_log, split_count, input, run, mode,
                 first_result, out_snapshot >>

\* plugin.rs:98-101: the weighted estimate is over the cap.
EnterResplit ==
  /\ loop.pc = "test"
  /\ loop.chunk_size > F64(MAX_SIZE_PER_CHUNK)
  /\ loop' = [loop EXCEPT !.pc = "outer", !.branch = "resplit",
                           !.remain_chunk_size = loop.chunk_size,
                           !.last_end_idx = 0, !.chunks = << >>]
  /\ UNCHANGED loop_frame

\* plugin.rs:122-124: vec![modules].
EmitSingle ==
  /\ loop.pc = "test"
  /\ ~(loop.chunk_size > F64(MAX_SIZE_PER_CHUNK))
  /\ loop' = [loop EXCEPT !.pc = "exit", !.branch = "single",
                           !.chunks = << loop.modules >>]
  /\ UNCHANGED loop_frame

\* plugin.rs:102-104: an outer iteration starts a batch.  A walk never holds
\* more batches than modules; the guard on the number of batches keeps the
\* state space finite.
OuterIterate ==
  /\ loop.pc = "outer"
  /\ OuterCond(loop)
  /\ Len(loop.chunks) <= Len(loop.modules)
  /\ loop' = [loop EXCEPT !.pc = "inner", !.new_chunk_size = 0,
                           !.start_idx = loop.last_end_idx]
  /\ UNCHANGED loop_frame

\* plugin.rs:102: the outer while is left.
OuterExit ==
  /\ loop.pc = "outer"
  /\ ~OuterCond(loop)
  /\ loop' = [loop EXCEPT !.pc = "tail"]
  /\ UNCHANGED loop_frame

\* plugin.rs:105-114: an inner iteration consumes modules[last_end_idx].
InnerIterate ==
  /\ loop.pc = "inner"
  /\ InnerCond(loop)
  /\ LET module_size == F64(ModuleSize(loop.modules[loop.last_end_idx + 1].module)) IN
     loop' = [loop EXCEPT !.new_chunk_size = @ + module_size,
                          !.remain_chunk_size = @ - module_size,
                          !.last_end_idx = @ + 1,
                          !.consumed = Append(@, loop.last_end_idx + 1)]
  /\ UNCHANGED loop_frame

\* plugin.rs:115: the inner while is left, the batch is pushed.
CloseBatch ==
  /\ loop.pc = "inner"
  /\ ~InnerCond(loop)
  /\ loop' = [loop EXCEPT !.pc = "outer",
                           !.chunks = Append(@, SubSeq(loop.modules, loop.start_idx + 1,
                                                       loop.last_end_idx))]
  /\ UNCHANGED loop_frame

\* plugin.rs:118-121: the trailing remainder, then the closure returns.
PushRemainder ==
  /\ loop.pc = "tail"
  /\ loop' = [loop EXCEPT !.pc = "exit",
                           !.chunks = IF loop.last_end_idx < Len(loop.modules)
                                      THEN Append(@, SubSeq(loop.modules, loop.last_end_idx + 1,
                                                            Len(loop.modules)))
                                      ELSE @]
  /\ UNCHANGED loop_frame

LoopInit ==
  /\ GrouperGraph
  /\ shared_modules # << >>
  /\ loop = LoopEntry(shared_modules)

LoopNext ==
  \/ EnterResplit
  \/ EmitSingle
  \/ OuterIterate
  \/ OuterExit
  \/ InnerIterate
  \/ CloseBatch
  \/ PushRemainder

\* The worker that runs the closure keeps running it.
SpecLoop == LoopInit /\ [][LoopNext]_vars /\ WF_vars(LoopNext)

(***************************************************************************)
(* Properties.                                                             *)
(***************************************************************************)
\* The raw (unweighted) total size of a batch.
RECURSIVE RawSize(_)
RawSize(modules) ==
  IF modules = << >> THEN 0 ELSE ModuleSize(Head(modules).module) + RawSize(Tail(modules))

\* The windows that have been grouped.
GroupedWindows == {w \in DOMAIN split_modules : split_modules[w].done}

\* C3 (size bound), as claimed: in a window that goes through the size
\* re-split, every batch except the last of the window has a raw total size
\* of at most MAX_SIZE_PER_CHUNK.
C3_SizeBound ==
  \A w \in GroupedWindows :
    NeedsResplit(Window(w)) =>
      \A b \in 1..(Len(split_modules[w].batches) - 1) :
        RawSize(split_modules[w].batches[b]) <= MAX_SIZE_PER_CHUNK

\* C8 (example C generalised), as claimed: a window whose weighted estimate
\* exceeds the cap while its raw total does not is re-split into exactly one
\* batch, the whole window.
C8_WeightedOnlyWindowIsOneBatch ==
  \A w \in GroupedWindows :
    (NeedsResplit(Window(w)) /\ RawSize(Window(w)) <= MAX_SIZE_PER_CHUNK) =>
      split_modules[w].batches = << Window(w) >>

\* The modules that were shared when the run started.
SharedInInput == {m \in Modules : Cardinality(input.cgm[m]) > 1}

\* The keys of the chunks this run has created.
CreatedKeys == {chunk_and_cgc[i].chunk.ukey : i \in 1..Len(chunk_and_cgc)}

\* The chunks of the chunk graph whose module-set holds m.
ChunksHolding(m) == {c \in DOMAIN cgc_modules : m \in cgc_modules[c]}

\* C1 (no residual sharing): when optimize_chunks returns, every module that
\* was in more than one chunk is in exactly one chunk, which the pass
\* created, and in none of its original chunks, in both indices.
C1_NoResidualSharing ==
  pc = "done" =>
    \A m \in SharedInInput :
      /\ \E c \in CreatedKeys \ DOMAIN input.cgc :
           cgm_chunks[m] = {c} /\ ChunksHolding(m) = {c}
      /\ \A old \in input.cgm[m] : old \notin cgm_chunks[m] /\ m \notin cgc_modules[old]

C1_Witness ==
  /\ pc = "done"
  /\ mode = "first"
  /\ Cardinality(SharedInInput) >= 2
  /\ \E m \in SharedInInput : Cardinality(input.cgm[m]) = NumOldChunks

\* A step that invokes split.
SplitStep == split_count' = split_count + 1

\* A step that registers a new chunk.
RegisterStep == run' = run /\ (DOMAIN chunk_by_ukey \ DOMAIN chunk_by_ukey') = {}
                /\ DOMAIN chunk_by_ukey' # DOMAIN chunk_by_ukey

\* A step that disconnects a module from a chunk.
DisconnectStep == run' = run /\ \E m \in Modules : cgm_chunks'[m] # cgm_chunks[m]
                                                   /\ cgm_chunks'[m] \subseteq cgm_chunks[m]

NothingRegistered == DOMAIN chunk_by_ukey = DOMAIN input.registry /\ DOMAIN cgc_modules = DOMAIN input.cgc

NothingDisconnected ==
  /\ \A c \in DOMAIN input.cgc : c \in DOMAIN cgc_modules /\ cgc_modules[c] = input.cgc[c]
  /\ \A m \in Modules : input.cgm[m] \subseteq cgm_chunks[m]

\* C2 (ordering contract): no split is invoked once a chunk has been
\* registered or a module disconnected, and no chunk is registered once a
\* module has been disconnected; so every split of an old chunk sees the
\* module set that chunk had before the pass.
C2_OrderingContract ==
  [][ /\ SplitStep =>
           /\ NothingRegistered
           /\ NothingDisconnected
           /\ \A t \in split_log' \ split_log : cgc_modules[t[2]] = input.cgc[t[2]]
      /\ RegisterStep => NothingDisconnected
    ]_vars

C2_Witness ==
  /\ pc = "done"
  /\ split_count >= 4
  /\ Len(chunk_and_cgc) >= 2
  /\ ~NothingDisconnected

\* The two indices agree on the chunk key c and the module m.
AgreeOn(m, c) == (c \in cgm_chunks[m]) <=> (c \in DOMAIN cgc_modules /\ m \in cgc_modules[c])

AllKeys == 1..next_ukey

IndexConsistent == \A m \in Modules : \A c \in AllKeys : AgreeOn(m, c)

\* A split is about to be invoked on this state.
AtSplitInvocation == pc = "split" /\ cur.k <= Len(SplitWork)

\* C4 (index consistency), as claimed: at every invocation of split and at
\* the return of optimize_chunks the two indices are mutually consistent.
C4_ConsistentAtObservablePoints ==
  (AtSplitInvocation \/ pc = "done") => IndexConsistent

\* C4, amended: the indices are mutually consistent at the return; at an
\* invocation of split they agree on every chunk that existed before the
\* pass, and every other key in a module's chunk-set is the key of the
\* not yet registered new chunk of the module's batch.
C4_ConsistentAtReturn ==
  /\ pc = "done" => IndexConsistent
  /\ AtSplitInvocation =>
       /\ \A m \in Modules : \A c \in DOMAIN input.cgc : AgreeOn(m, c)
       /\ \A m \in Modules : \A c \in cgm_chunks[m] \ DOMAIN input.cgc :
            /\ c \notin DOMAIN cgc_modules
            /\ \E i \in 1..Len(chunk_and_cgc) :
                 chunk_and_cgc[i].chunk.ukey = c /\ m \in chunk_and_cgc[i].cgc

C4_Witness ==
  /\ pc = "done"
  /\ mode = "first"
  /\ split_count >= 1
  /\ \E c \in CreatedKeys : c \in DOMAIN cgc_modules /\ Cardinality(cgc_modules[c]) >= 2

\* C5 (frame): when optimize_chunks returns, a module that was in at most
\* one chunk has the chunk-set it had, and every chunk that existed has the
\* module-set it had minus the modules that were shared.
C5_Frame ==
  pc = "done" =>
    /\ \A m \in Modules \ SharedInInput : cgm_chunks[m] = input.cgm[m]
    /\ \A c \in DOMAIN input.cgc :
         c \in DOMAIN cgc_modules /\ cgc_modules[c] = input.cgc[c] \ SharedInInput

\* Example A: a chunk that held a shared and an unshared module.
C5_Witness ==
  /\ pc = "done"
  /\ mode = "first"
  /\ \E c \in DOMAIN input.cgc :
       /\ input.cgc[c] \cap SharedInInput # {}
       /\ input.cgc[c] \ SharedInInput # {}
       /\ cgc_modules[c] = input.cgc[c] \ SharedInInput

\* C6 (determinism): a second run on the same input graph ends with the
\* same ordered sequence of batches and the same reason strings as the
\* first, whatever the scan order and the order of the workers.
C6_Determinism ==
  (mode = "replay" /\ pc = "done") =>
    /\ BatchIds(chunk_and_cgc) = first_result.batches
    /\ Reasons(chunk_and_cgc) = first_result.reasons

C6_Witness ==
  /\ mode = "replay"
  /\ pc = "done"
  /\ Len(first_result.batches) >= 2
  /\ \E i \in 1..Len(first_result.batches) : Len(first_result.batches[i]) >= 2

\* C7 (no partial application), as claimed: a pass with a shared module that
\* is not found in the module graph never returns, and when it aborts no
\* chunk key has been inserted into a chunk-set, no split has been invoked,
\* no chunk has been registered and no module has been disconnected.
C7_NothingAppliedAtAbort ==
  /\ pc = "done" => SharedInInput \subseteq resolvable
  /\ pc = "aborted" =>
       /\ cgm_chunks = input.cgm
       /\ split_count = 0
       /\ NothingRegistered
       /\ NothingDisconnected

\* C9 (count bound): the windows are consecutive slices of the sorted list,
\* each of at most MAX_MODULES_PER_CHUNK modules and all but the last of
\* exactly that many, so there are ceil(N / MAX_MODULES_PER_CHUNK) of them
\* (500, 500, 200 for 1200 modules and a cap of 500); every batch holds at
\* most MAX_MODULES_PER_CHUNK modules.
C9_CountBound ==
  LET N == Len(shared_modules)
      n == Len(Windows)
  IN  pc \notin {"start", "collected"} =>
      /\ n * MAX_MODULES_PER_CHUNK >= N
      /\ (n - 1) * MAX_MODULES_PER_CHUNK < N \/ (n = 0 /\ N = 0)
      /\ DOMAIN split_modules = 1..n
      /\ n > 0 => Windows[1][1] = 1 /\ Windows[n][2] = N
      /\ \A w \in 1..n :
           /\ Windows[w][2] - Windows[w][1] + 1 <= MAX_MODULES_PER_CHUNK
           /\ Windows[w][2] >= Windows[w][1]
           /\ w < n => /\ Windows[w][2] - Windows[w][1] + 1 = MAX_MODULES_PER_CHUNK
                       /\ Windows[w + 1][1] = Windows[w][2] + 1
           /\ \A b \in 1..Len(split_modules[w].batches) :
                Len(split_modules[w].batches[b]) <= MAX_MODULES_PER_CHUNK
      /\ ParChunks(1200, 500) = << <<1, 500>>, <<501, 1000>>, <<1001, 1200>> >>

C9_Witness ==
  /\ pc = "synth"
  /\ Len(Windows) >= 2
  /\ Windows[Len(Windows)][2] - Windows[Len(Windows)][1] + 1 < MAX_MODULES_PER_CHUNK
  /\ \A w \in DOMAIN split_modules : split_modules[w].done

\* C10 (idempotence on fresh output): a second run on the graph the first
\* run produced creates no chunk, invokes no split and leaves both indices
\* and the chunk registry as they were.
C10_Idempotence ==
  mode = "rerun" =>
    /\ Graph = out_snapshot.graph
    /\ next_ukey = out_snapshot.next_ukey
    /\ split_count = 0
    /\ chunk_and_cgc = << >>
    /\ pc # "aborted"

C10_Witness ==
  /\ mode = "rerun"
  /\ pc = "done"
  /\ Len(first_result.batches) >= 2

\* The module identities of the batch of the i-th synthesized chunk.
BatchModules(i) == {chunk_and_cgc[i].info[j].module : j \in 1..Len(chunk_and_cgc[i].info)}

\* The split invocations the claim prescribes: one per module of a batch and
\* chunk of that module's original chunk-set.
ExpectedSplits ==
  {t \in Modules \X (DOMAIN input.cgc) \X CreatedKeys :
     \E i \in 1..Len(chunk_and_cgc) :
       /\ chunk_and_cgc[i].chunk.ukey = t[3]
       /\ t[1] \in BatchModules(i)
       /\ t[2] \in input.cgm[t[1]]}

\* C11 (split recording): once the split loop has ended, split has been
\* invoked exactly once for every (module of a batch, chunk of the module's
\* original chunk-set) and for nothing else; a new chunk is a split-child of
\* an old chunk exactly if a module of its batch belonged to that chunk, and
\* no chunk created by the pass has split-children.
C11_SplitRecording ==
  /\ pc = "split" => split_log \subseteq ExpectedSplits
  /\ pc \in {"add", "disconnect", "return", "done"} =>
       /\ split_log = ExpectedSplits
       /\ split_count = Cardinality(ExpectedSplits)
       /\ DOMAIN split_children = DOMAIN input.children
       /\ \A X \in DOMAIN input.cgc : \A i \in 1..Len(chunk_and_cgc) :
            (chunk_and_cgc[i].chunk.ukey \in split_children[X] \ input.children[X])
              <=> (\E m \in BatchModules(i) : X \in input.cgm[m])

\* Example A with a second shared module: a new chunk that is a split-child
\* of some old chunks and not of another.
C11_Witness ==
  /\ pc = "done"
  /\ mode = "first"
  /\ split_count >= 5
  /\ \E X, Y \in DOMAIN input.cgc : \E i \in 1..Len(chunk_and_cgc) :
       /\ chunk_and_cgc[i].chunk.ukey \in split_children[X]
       /\ chunk_and_cgc[i].chunk.ukey \notin split_children[Y]

\* The batches of all windows, in order, once every window is grouped.
AllGrouped == \A w \in DOMAIN split_modules : split_modules[w].done

AllBatches == Flatten([w \in DOMAIN split_modules |-> split_modules[w].batches])

ModulesOf(batch) == {batch[k].module : k \in 1..Len(batch)}

\* C12 (partition): the batches of a window are non-empty and their
\* concatenation is the window; the batches of all windows are pairwise
\* disjoint, their concatenation in batch order is the sorted shared-module
\* list, and they hold shared modules only.
C12_Partition ==
  /\ \A w \in GroupedWindows :
       /\ Flatten(split_modules[w].batches) = Window(w)
       /\ \A b \in 1..Len(split_modules[w].batches) : split_modules[w].batches[b] # << >>
  /\ (pc = "synth" /\ AllGrouped) =>
       /\ AllBatches # << >> => Flatten(AllBatches) = shared_modules
       /\ AllBatches = << >> => shared_modules = << >>
       /\ \A i, j \in 1..Len(AllBatches) :
            i # j => ModulesOf(AllBatches[i]) \cap ModulesOf(AllBatches[j]) = {}
       /\ \A i \in 1..Len(AllBatches) :
            ModulesOf(AllBatches[i]) \subseteq {m \in Modules : Cardinality(input.cgm[m]) > 1}
       /\ \A m \in Modules : Cardinality(input.cgm[m]) > 1 =>
            Cardinality({i \in 1..Len(AllBatches) : m \in ModulesOf(AllBatches[i])}) = 1

\* Two windows, one of them cut into several batches with a remainder.
C12_Witness ==
  /\ pc = "synth"
  /\ AllGrouped
  /\ Len(split_modules) >= 2
  /\ Len(AllBatches) > Len(split_modules)
  /\ \E w \in DOMAIN split_modules :
       /\ Len(split_modules[w].batches) >= 2
       /\ RawSize(split_modules[w].batches[Len(split_modules[w].batches)]) < MAX_SIZE_PER_CHUNK

\* The keys the run has added to the chunk registry.
AddedKeys == DOMAIN chunk_by_ukey \ DOMAIN input.registry

\* C15 (chunk synthesis): when the pass returns, the number of chunks it
\* added equals the number of batches, every added chunk is registered in
\* both the chunk registry and the chunk graph, its chunk-graph module-set is
\* exactly the set of module identities of its batch and is not empty, and
\* distinct batches have distinct chunk keys.
C15_ChunkSynthesis ==
  pc = "done" =>
    /\ Len(chunk_and_cgc) = Len(AllBatches)
    /\ Cardinality(AddedKeys) = Len(AllBatches)
    /\ AddedKeys = DOMAIN cgc_modules \ DOMAIN input.cgc
    /\ \A i \in 1..Len(chunk_and_cgc) :
         LET key == chunk_and_cgc[i].chunk.ukey IN
         /\ key \in AddedKeys
         /\ chunk_by_ukey[key] = chunk_and_cgc[i].chunk
         /\ cgc_modules[key] = ModulesOf(AllBatches[i])
         /\ cgc_modules[key] # {}
         /\ \A j \in 1..Len(chunk_and_cgc) : i # j => chunk_and_cgc[j].chunk.ukey # key

\* A returned run that added two chunks, one of them with two modules.
C15_Witness ==
  /\ pc = "done"
  /\ Cardinality(AddedKeys) >= 2
  /\ \E key \in AddedKeys : Cardinality(cgc_modules[key]) >= 2

\* The reference count of a module in the graph the run started from.
RefCount(m) == Cardinality(input.cgm[m])

\* The index of the batch that holds module m.
BatchIndex(m) == CHOOSE i \in 1..Len(AllBatches) : m \in ModulesOf(AllBatches[i])

\* C16 (priority order): the sorted shared-module list is strictly ordered
\* by descending reference count and, among equal counts, by ascending
\* module identity; no two entries compare equal; a module with a higher
\* reference count is in a batch whose index is not larger.
C16_PriorityOrder ==
  /\ pc \notin {"start", "collected"} =>
       \A i, j \in 1..Len(shared_modules) :
         i < j =>
           LET a == shared_modules[i]
               b == shared_modules[j]
           IN  /\ \/ RefCount(a.module) > RefCount(b.module)
                  \/ RefCount(a.module) = RefCount(b.module) /\ a.module < b.module
               /\ Compare(a, b) = "Less"
               /\ Compare(b, a) = "Greater"
  /\ (pc \notin {"start", "collected"} /\ AllGrouped) =>
       \A a, b \in SharedInInput :
         RefCount(a) > RefCount(b) => BatchIndex(a) <= BatchIndex(b)

\* Three shared modules: the one with the larger identity has the higher
\* reference count and comes first, the tie of the other two goes by identity.
C16_Witness ==
  /\ pc = "synth"
  /\ AllGrouped
  /\ Len(shared_modules) = 3
  /\ shared_modules[1].module > shared_modules[2].module
  /\ RefCount(shared_modules[1].module) > RefCount(shared_modules[2].module)
  /\ RefCount(shared_modules[2].module) = RefCount(shared_modules[3].module)
  /\ BatchIndex(shared_modules[1].module) < BatchIndex(shared_modules[3].module)

\* A batch without its last module.
ButLast(batch) == SubSeq(batch, 1, Len(batch) - 1)

\* The number of modules in the first b batches.
RECURSIVE PrefixLen(_, _)
PrefixLen(batches, b) == IF b = 0 THEN 0 ELSE Len(batches[b]) + PrefixLen(batches, b - 1)

\* C18 (greedy boundary placement): in a size re-split, a batch that the
\* greedy walk closes before the end of its window has a raw total of at
\* least MAX_SIZE_PER_CHUNK, and without its last module a raw total
\* strictly below MAX_SIZE_PER_CHUNK.
C18_GreedyBoundary ==
  loop.branch = "resplit" =>
    \A b \in 1..Len(loop.chunks) :
      PrefixLen(loop.chunks, b) < Len(loop.modules) =>
        /\ RawSize(loop.chunks[b]) >= MAX_SIZE_PER_CHUNK
        /\ RawSize(ButLast(loop.chunks[b])) < MAX_SIZE_PER_CHUNK

\* A batch of two modules, closed before the end of the window by the module
\* that brings it to the cap or over it.
C18_Witness ==
  /\ loop.pc = "exit"
  /\ loop.branch = "resplit"
  /\ Len(loop.chunks) >= 2
  /\ Len(loop.chunks[1]) >= 2
  /\ RawSize(ButLast(loop.chunks[1])) > 0

\* The indices the inner loop has read are 1, 2, ... in this order.
ConsumedInOrder ==
  /\ Len(loop.consumed) = loop.last_end_idx
  /\ \A i \in 1..Len(loop.consumed) : loop.consumed[i] = i
  /\ loop.last_end_idx <= Len(loop.modules)

InnerStep == loop.pc = "inner" /\ loop'.pc = "inner"

CloseStep == loop.pc = "inner" /\ loop'.pc = "outer"

\* C17 (termination of the re-split): for every window and every assignment
\* of non-negative sizes the closure returns; every inner iteration
\* increases the end index by one, so every module is consumed at most once;
\* every outer iteration performs at least one inner iteration; the batches
\* at the return are those of the closure.
C17_Termination ==
  /\ <>(loop.pc = "exit")
  /\ [][InnerStep => loop'.last_end_idx = loop.last_end_idx + 1]_vars
  /\ [][CloseStep => loop.last_end_idx > loop.start_idx]_vars
  /\ [](ConsumedInOrder /\ Len(loop.chunks) <= loop.last_end_idx + 1)
  /\ [](loop.pc = "exit" => loop.chunks = SizeSplit(loop.modules))

\* A re-split that consumed a module of size zero, closed two batches and
\* left the outer loop at the end of the window with the remaining estimate
\* still over the cap.
C17_Witness ==
  /\ loop.pc = "exit"
  /\ loop.branch = "resplit"
  /\ Len(loop.chunks) >= 2
  /\ loop.last_end_idx = Len(loop.modules)
  /\ loop.remain_chunk_size > F64(MAX_SIZE_PER_CHUNK)
  /\ \E i \in 1..Len(loop.consumed) : ModuleSize(loop.modules[loop.consumed[i]].module) = 0

\* The raw size the walk has consumed so far.
RawConsumed == RawSize(SubSeq(loop.modules, 1, loop.last_end_idx))

\* The modules the walk has not consumed.
Rest == SubSeq(loop.modules, loop.last_end_idx + 1, Len(loop.modules))

InWalk == loop.branch = "resplit" /\ loop.pc \in {"outer", "inner"}

\* C19 (trailing remainder), as claimed: the greedy walk consumes no further
\* module as soon as the weighted estimate minus the raw size consumed is at
\* most MAX_SIZE_PER_CHUNK, and the trailing remainder batch has a raw total
\* of at most MAX_SIZE_PER_CHUNK.
C19_StopsAsSoonAs ==
  /\ [][(InWalk /\ loop.chunk_size - F64(RawConsumed) <= F64(MAX_SIZE_PER_CHUNK))
          => loop'.last_end_idx = loop.last_end_idx]_vars
  /\ [](loop.pc = "tail" => RawSize(Rest) <= MAX_SIZE_PER_CHUNK)

StartStep == loop.pc = "outer" /\ loop'.pc = "inner"

\* C19 (trailing remainder), as the code has it: remain_chunk_size is the
\* weighted estimate minus the raw size consumed; it is tested between
\* batches only, so no batch is started once it is at most
\* MAX_SIZE_PER_CHUNK, while a batch in progress is filled until its own raw
\* total reaches the cap or the window ends; the trailing remainder, when
\* modules are left, is the last batch and has a raw total of at most
\* MAX_SIZE_PER_CHUNK.
C19_TrailingRemainder ==
  /\ [](InWalk => loop.remain_chunk_size = loop.chunk_size - F64(RawConsumed))
  /\ [][StartStep => loop.remain_chunk_size > F64(MAX_SIZE_PER_CHUNK)]_vars
  /\ [](loop.pc = "tail" /\ Rest # << >> =>
          /\ loop.remain_chunk_size <= F64(MAX_SIZE_PER_CHUNK)
          /\ RawSize(Rest) <= MAX_SIZE_PER_CHUNK)
  /\ [](loop.pc = "exit" /\ loop.branch = "resplit" /\ Rest # << >> =>
          /\ loop.chunks[Len(loop.chunks)] = Rest
          /\ RawSize(loop.chunks[Len(loop.chunks)]) <= MAX_SIZE_PER_CHUNK)

\* A re-split that closed a batch of two modules and then left the outer
\* loop with a remainder of positive raw size.
C19_Witness ==
  /\ loop.pc = "exit"
  /\ loop.branch = "resplit"
  /\ Rest # << >>
  /\ RawSize(Rest) > 0
  /\ Len(loop.chunks[1]) >= 2
  /\ loop.remain_chunk_size = F64(MAX_SIZE_PER_CHUNK)

\* The weighted estimate as the claim states it, in halves: raw size times
\* 5.0 for Jsx, JsxDynamic, JsxEsm and Tsx modules, times 1.5 for the others.
RECURSIVE WeightedEstimate(_)
WeightedEstimate(modules) ==
  IF modules = << >> THEN 0
  ELSE LET m == module_graph[Head(modules).module] IN
       (IF m.module_type \in {"Jsx", "JsxDynamic", "JsxEsm", "Tsx"}
        THEN 10 * m.size ELSE 3 * m.size)
       + WeightedEstimate(Tail(modules))

\* C14 (re-split decision), as claimed: a window is emitted as a single
\* unchanged batch if and only if its weighted estimate is at most
\* MAX_SIZE_PER_CHUNK.
C14_SingleBatchIff ==
  loop.pc = "exit" =>
    (loop.chunks = << loop.modules >>
       <=> WeightedEstimate(loop.modules) <= F64(MAX_SIZE_PER_CHUNK))

\* C14 (re-split decision), as the code has it: the closure takes the
\* single-batch branch if and only if the weighted estimate is at most
\* MAX_SIZE_PER_CHUNK, whatever the raw total, and that branch emits the
\* window unchanged as one batch; the re-split branch may emit the whole
\* window as one batch too.
C14_ResplitDecision ==
  loop.branch # "none" =>
    /\ loop.branch = "single" <=> WeightedEstimate(loop.modules) <= F64(MAX_SIZE_PER_CHUNK)
    /\ loop.branch = "resplit" <=> WeightedEstimate(loop.modules) > F64(MAX_SIZE_PER_CHUNK)
    /\ (loop.branch = "single" /\ loop.pc = "exit") => loop.chunks = << loop.modules >>

\* A window over the cap by its weighted estimate and under it by its raw
\* total: it is re-split, into one batch that is the whole window.
C14_Witness ==
  /\ loop.pc = "exit"
  /\ loop.branch = "resplit"
  /\ RawSize(loop.modules) < MAX_SIZE_PER_CHUNK
  /\ Len(loop.modules) >= 2
  /\ loop.chunks = << loop.modules >>

\* The workers that have taken a batch, as <<window, batch>> pairs.
Workers ==
  {wb \in (DOMAIN split_modules) \X (1..NumModules) :
     /\ wb[2] \in DOMAIN synth[wb[1]]
     /\ synth[wb[1]][wb[2]] # NotSynthesized}

\* The modules whose chunk-set the worker has written so far, and the ones it
\* will have written when it returns.
Written(wb) ==
  LET t == synth[wb[1]][wb[2]] IN
  {t.info[k].module : k \in 1..(IF t.done THEN Len(t.info) ELSE t.pos)}

WriteSet(wb) == ModulesOf(synth[wb[1]][wb[2]].info)

\* C13 (race freedom in synthesis): in every interleaving of the workers no
\* two of them write the chunk-set of the same module; at every moment a
\* module's chunk-set is its original one plus the key of the worker that
\* has written it; when all batches are synthesized every shared module has
\* gained exactly the key of its own batch's chunk and nothing else has
\* changed.
C13_RaceFreedom ==
  /\ \A x, y \in Workers : x # y =>
       /\ WriteSet(x) \cap WriteSet(y) = {}
       /\ synth[x[1]][x[2]].chunk.ukey # synth[y[1]][y[2]].chunk.ukey
  /\ \A m \in Modules :
       cgm_chunks[m] = input.cgm[m] \cup
         {synth[x[1]][x[2]].chunk.ukey : x \in {y \in Workers : m \in Written(y)}}
  /\ (pc = "synth" /\ AllSynthesized) =>
       /\ \A m \in Modules :
            IF m \in SharedInInput
            THEN \E x \in Workers :
                   /\ m \in WriteSet(x)
                   /\ cgm_chunks[m] = input.cgm[m] \cup {synth[x[1]][x[2]].chunk.ukey}
            ELSE cgm_chunks[m] = input.cgm[m]
       /\ cgc_modules = input.cgc
       /\ chunk_by_ukey = input.registry
       /\ split_children = input.children

\* Two workers at work at the same time, one of them between its two writes;
\* the worker of the later window was the first to create its chunk.
C13_Witness ==
  \E x, y \in Workers :
    /\ x # y
    /\ InProgress(x[1], x[2])
    /\ InProgress(y[1], y[2])
    /\ Written(x) # {}
    /\ Written(x) # WriteSet(x)
    /\ Written(y) = {}
    /\ x[1] < y[1]
    /\ synth[x[1]][x[2]].chunk.ukey > synth[y[1]][y[2]].chunk.ukey

====
